---------------------------- MODULE Spec2Model ----------------------------
(***************************************************************************)
(* Geometry-nodes "Point Distribute" (random scatter and scatter with a    *)
(* minimum distance), source/blender/compositor/operations/                *)
(* COM_SetVectorOperation.h, lines 500-805.                                *)
(*                                                                         *)
(* Conventions.  C++ arrays are TLA+ sequences, so the C++ index i is the  *)
(* TLA+ index i + 1; loop counters keep their C++ value.  The value of     *)
(* looptri_index is kept 0-based because the code does arithmetic with it. *)
(* Floats are exact rationals: a random float and a barycentric weight are *)
(* numerators over RngMod, a coordinate of a scattered point is a          *)
(* numerator over RngMod, the density is a numerator over DensityDen, and  *)
(* a point amount is a record [num, den].                                  *)
(***************************************************************************)
EXTENDS Integers, Sequences, FiniteSets, TLC

(***************************************************************************)
(* Bounds of the model                                                     *)
(***************************************************************************)
MaxLooptris == 2
MaxSeed == 1
MaxPoints == 4

(* modulus of the stand-in random number generator, and denominator of    *)
(* every random float                                                     *)
RngMod == 16
(* the density input is DensityNum / DensityDen                            *)
DensityDen == 2
(* the three density factors are averaged: division by 3.0f                *)
FactorDen == 3
(* area_tri_v3 is half the length of the cross product                     *)
AreaDen == 2
(* pointcloud->radius[i] = 0.05f, in hundredths                            *)
PointRadius == 5

NULL == "null"

(***************************************************************************)
(* Vector helpers (BLI_float3.hh, BLI_math_vector.h)                       *)
(***************************************************************************)
Abs(x) == IF x < 0 THEN -x ELSE x

Max(a, b) == IF a > b THEN a ELSE b

Sub3(a, b) == <<a[1] - b[1], a[2] - b[2], a[3] - b[3]>>

Cross3(a, b) == <<a[2] * b[3] - a[3] * b[2],
                  a[3] * b[1] - a[1] * b[3],
                  a[1] * b[2] - a[2] * b[1]>>

len_squared(a, b) ==
  LET d == Sub3(a, b) IN d[1] * d[1] + d[2] * d[2] + d[3] * d[3]

(* Twice the area of a triangle.  The triangles of the model lie in an    *)
(* axis-aligned plane, so the cross product has one non-zero component    *)
(* and its length is the sum of the absolute components.                  *)
area_tri_v3(v0, v1, v2) ==
  LET c == Cross3(Sub3(v1, v0), Sub3(v2, v0)) IN Abs(c[1]) + Abs(c[2]) + Abs(c[3])

(* Flat normal of the triangle (not normalised in the model).             *)
normal_tri_v3(v0, v1, v2) == Cross3(Sub3(v0, v1), Sub3(v1, v2))

(* interp_v3_v3v3v3: weighted sum of the vertices; with the weights as    *)
(* numerators over RngMod the result is a numerator over RngMod.          *)
interp_v3_v3v3v3(v0, v1, v2, w) ==
  <<v0[1] * w[1] + v1[1] * w[2] + v2[1] * w[3],
    v0[2] * w[1] + v1[2] * w[2] + v2[2] * w[3],
    v0[3] * w[1] + v1[3] * w[2] + v2[3] * w[3]>>

(* float3::hash, truncated to int.                                        *)
float3_hash(b) == (b[1] * 7 + b[2] * 13 + b[3] * 29) % 64

(* vec_to_quat + quat_to_eul: an orientation determined by the normal.    *)
normal_to_euler_rotation(normal) == [eul_of |-> normal]

(***************************************************************************)
(* Random numbers (BLI_hash.h, BLI_rand.hh)                                *)
(***************************************************************************)
BLI_hash_int(k) == (7 * k + 3) % RngMod

(* RandomNumberGenerator(seed)                                            *)
RandomNumberGenerator(seed) == seed % RngMod

(* one step of the generator; get_float returns the new state / RngMod    *)
RngStep(x) == (5 * x + 3) % RngMod

RECURSIVE RngAdvance(_, _)
RngAdvance(x, k) == IF k = 0 THEN x ELSE RngAdvance(RngStep(x), k - 1)

(* get_barycentric_coordinates, from the state x before the call          *)
get_barycentric_coordinates(x) ==
  LET rand1 == RngStep(x)
      rand2 == RngStep(rand1)
      flip == rand1 + rand2 > RngMod
      r1 == IF flip THEN RngMod - rand1 ELSE rand1
      r2 == IF flip THEN RngMod - rand2 ELSE rand2
  IN <<r1, r2, RngMod - r1 - r2>>

(***************************************************************************)
(* Meshes and inputs                                                       *)
(***************************************************************************)
(* mesh->mvert[..].co                                                      *)
Verts == << <<0, 0, 0>>, <<2, 0, 0>>, <<0, 2, 0>>, <<2, 1, 0>> >>

VertIndices == 1..Len(Verts)

(* a looptri is the triple of the vertex indices mloop[looptri.tri[k]].v  *)
LooptriChoices == {<<1, 2, 3>>, <<2, 4, 3>>}

SeqsUpTo(S, n) == UNION {[1..k -> S] : k \in 0..n}

Meshes == SeqsUpTo(LooptriChoices, MaxLooptris)

(* values of the density attribute at a vertex                             *)
FactorValues == {-1, 0, 1}

AllOnes == [v \in VertIndices |-> 1]

FactorFields == [VertIndices -> FactorValues]

(* "Density Max", in units of 1 / DensityDen                               *)
DensityNums == {-1, 0, 1, 3}

(* "Distance Min", in units of 1 / RngMod                                  *)
Distances == {0, 16, 24}

Seeds == 0..MaxSeed

Methods == {"RANDOM", "POISSON"}


(* the geometry input: no mesh component, a component without a mesh,     *)
(* a mesh without polygons, or a mesh with its looptris                    *)
Geometries ==
  {[has_mesh |-> FALSE, mesh_in |-> NULL, mpoly |-> NULL, looptris |-> <<>>],
   [has_mesh |-> TRUE, mesh_in |-> NULL, mpoly |-> NULL, looptris |-> <<>>],
   [has_mesh |-> TRUE, mesh_in |-> "mesh", mpoly |-> NULL, looptris |-> <<>>]}
  \cup {[has_mesh |-> TRUE, mesh_in |-> "mesh", mpoly |-> "mpoly", looptris |-> m] :
          m \in Meshes}

(***************************************************************************)
(* State                                                                   *)
(***************************************************************************)
VARIABLES
  params,           \* GeoNodeExecParams: the inputs of the node
  pc,               \* position in geo_node_point_distribute_exec
  looptri_index,    \* loop counter of the scatter loops
  looptri_rng,      \* the generator of the looptri processed last
  positions,        \* Vector<float3> points / positions
  bary_coords,      \* Vector<float3> bary_coords
  looptri_indices,  \* Vector<int> looptri_indices
  elimination_mask, \* Array<bool> elimination_mask
  kdtree,           \* KDTree_3d *kdtree
  i,                \* loop counter of the mask and removal loops
  normals,          \* Vector<float3> normals
  stable_ids,       \* Vector<int> stable_ids
  geometry_set_out, \* the geometry set given to params.set_output
  scatter_log,      \* history: what each looptri emitted
  candidates,       \* history: the three arrays when the mask was created
  previous          \* history: the inputs and results of the execution before

vars == <<params, pc, looptri_index, looptri_rng, positions, bary_coords,
          looptri_indices, elimination_mask, kdtree, i, normals, stable_ids,
          geometry_set_out, scatter_log, candidates, previous>>

(* the output before params.set_output is called                           *)
OutputNotSet == [output_set |-> FALSE, has_pointcloud |-> FALSE, co |-> <<>>,
                 radius |-> <<>>, id |-> <<>>, normal |-> <<>>, rotation |-> <<>>]

NoPrevious == [valid |-> FALSE, params |-> <<>>, scatter_log |-> <<>>,
               output |-> OutputNotSet]

NoKdtree == [state |-> "none", nodes |-> <<>>, queries |-> 0, frees |-> 0]

NoCandidates == [positions |-> <<>>, bary_coords |-> <<>>, looptri_indices |-> <<>>]

ParamSets ==
  [geometry : Geometries,
   density : DensityNums,
   density_factors : FactorFields,
   seed : Seeds,
   distribute_method : Methods,
   minimum_distance : Distances]

(* "Distance Min" is read in the POISSON case only                         *)
ExecParams ==
  {p \in ParamSets :
     p.distribute_method = "RANDOM" => p.minimum_distance = 0}

Locals ==
  /\ looptri_index = 0
  /\ looptri_rng = 0
  /\ positions = <<>>
  /\ bary_coords = <<>>
  /\ looptri_indices = <<>>
  /\ elimination_mask = <<>>
  /\ kdtree = NoKdtree
  /\ i = 0
  /\ normals = <<>>
  /\ stable_ids = <<>>
  /\ geometry_set_out = OutputNotSet
  /\ scatter_log = <<>>
  /\ candidates = NoCandidates
  /\ previous = NoPrevious

Init ==
  /\ params \in ExecParams
  /\ pc = "has_mesh"
  /\ Locals

(***************************************************************************)
(* Uniform scatter of one looptri (lines 533-570 and 584-609)              *)
(***************************************************************************)
One == [num |-> 1, den |-> 1]

(* lines 541-546 without std::max: the raw factors averaged                *)
looptri_density_factor_unclamped(density_factors, looptri) ==
  [num |-> density_factors[looptri[1]] + density_factors[looptri[2]]
             + density_factors[looptri[3]],
   den |-> FactorDen]

(* lines 541-546: the clamped factors of the three vertices, averaged      *)
looptri_density_factor(density_factors, looptri) ==
  [num |-> Max(0, density_factors[looptri[1]]) + Max(0, density_factors[looptri[2]])
             + Max(0, density_factors[looptri[3]]),
   den |-> FactorDen]

(* lines 552 and 596: area * density [* looptri_density_factor]            *)
points_amount_fl(area2, density, factor) ==
  [num |-> area2 * density * factor.num, den |-> AreaDen * DensityDen * factor.den]

(* fractf(x) = x - floorf(x)                                               *)
fractf(a) == [num |-> a.num % a.den, den |-> a.den]

(* (int)x truncates towards zero                                           *)
IntCast(a) == IF a.num >= 0 THEN a.num \div a.den ELSE -((-a.num) \div a.den)

(* lines 549-550 and 593-594: every looptri has a generator of its own     *)
LooptriRngShared(index, seed, last_rng) ==
  IF index = 0 THEN RandomNumberGenerator(BLI_hash_int(seed)) ELSE last_rng

LooptriRng(index, seed, last_rng) == RandomNumberGenerator(BLI_hash_int(index + seed))

(* lines 553-554 and 597-598                                               *)
AddPointLoose(add_point_probability, u) ==
  add_point_probability.num * RngMod >= u * add_point_probability.den

AddPoint(add_point_probability, u) ==
  add_point_probability.num * RngMod > u * add_point_probability.den

(* lines 555 and 599                                                       *)
PointAmount(amount, u) ==
  IntCast(amount) + (IF AddPoint(fractf(amount), u) THEN 1 ELSE 0)

(* the barycentric coordinates of n points, drawn from the state rng       *)
RECURSIVE BaryDraws(_, _)
BaryDraws(rng, n) ==
  IF n <= 0 THEN <<>>
  ELSE <<get_barycentric_coordinates(rng)>> \o BaryDraws(RngAdvance(rng, 2), n - 1)

(* one iteration of the loop over the looptris: what the looptri emits     *)
ScatterLooptri(index, seed, looptri, density, factor, last_rng) ==
  LET v0_pos == Verts[looptri[1]]
      v1_pos == Verts[looptri[2]]
      v2_pos == Verts[looptri[3]]
      area == area_tri_v3(v0_pos, v1_pos, v2_pos)
      rng0 == LooptriRng(index, seed, last_rng)
      amount == points_amount_fl(area, density, factor)
      u == RngStep(rng0)
      point_amount == PointAmount(amount, u)
      barys == BaryDraws(u, point_amount)
  IN [looptri_index |-> index,
      looptri |-> looptri,
      factor |-> factor,
      amount |-> amount,
      u |-> u,
      point_amount |-> point_amount,
      bary |-> barys,
      pos |-> [k \in 1..Len(barys) |->
                 interp_v3_v3v3v3(v0_pos, v1_pos, v2_pos, barys[k])],
      id |-> [k \in 1..Len(barys) |-> float3_hash(barys[k]) + index],
      normal |-> [k \in 1..Len(barys) |-> normal_tri_v3(v0_pos, v1_pos, v2_pos)],
      rng |-> RngAdvance(u, 2 * Len(barys))]

Looptris == params.geometry.looptris

(* GeometrySet geometry_set_out, line 721, once given to set_output        *)
EmptyGeometry == [output_set |-> TRUE, has_pointcloud |-> FALSE, co |-> <<>>,
                  radius |-> <<>>, id |-> <<>>, normal |-> <<>>, rotation |-> <<>>]

(***************************************************************************)
(* geo_node_point_distribute_exec, lines 718-764                           *)
(***************************************************************************)
(* lines 726-729 *)
ExecHasMesh ==
  /\ pc = "has_mesh"
  /\ IF ~params.geometry.has_mesh
       THEN /\ geometry_set_out' = EmptyGeometry
            /\ pc' = "done"
       ELSE /\ pc' = "density"
            /\ UNCHANGED geometry_set_out
  /\ UNCHANGED <<params, looptri_index, looptri_rng, positions, bary_coords,
                 looptri_indices, elimination_mask, kdtree, i, normals,
                 stable_ids, scatter_log, candidates, previous>>

(* line 734, with the comparison that lets a zero density through *)
DensityIsDegenerateStrict(density) == density < 0

(* line 734 *)
DensityIsDegenerate(density) == density <= 0

(* lines 731-737 *)
ExecDensity ==
  /\ pc = "density"
  /\ IF DensityIsDegenerate(params.density)
       THEN /\ geometry_set_out' = EmptyGeometry
            /\ pc' = "done"
       ELSE /\ pc' = "mesh_in"
            /\ UNCHANGED geometry_set_out
  /\ UNCHANGED <<params, looptri_index, looptri_rng, positions, bary_coords,
                 looptri_indices, elimination_mask, kdtree, i, normals,
                 stable_ids, scatter_log, candidates, previous>>

(* lines 739-764: the mesh check and the switch on the method *)
ExecMeshIn ==
  /\ pc = "mesh_in"
  /\ IF params.geometry.mesh_in = NULL \/ params.geometry.mpoly = NULL
       THEN /\ geometry_set_out' = EmptyGeometry
            /\ pc' = "done"
       ELSE /\ pc' = IF params.distribute_method = "RANDOM"
                       THEN "random_scatter" ELSE "initial_uniform"
            /\ UNCHANGED geometry_set_out
  /\ UNCHANGED <<params, looptri_index, looptri_rng, positions, bary_coords,
                 looptri_indices, elimination_mask, kdtree, i, normals,
                 stable_ids, scatter_log, candidates, previous>>

(***************************************************************************)
(* random_scatter_points_from_mesh, lines 522-573                          *)
(***************************************************************************)
RandomScatterLooptri ==
  /\ pc = "random_scatter"
  /\ looptri_index < Len(Looptris)
  /\ LET looptri == Looptris[looptri_index + 1]
         e == ScatterLooptri(looptri_index, params.seed, looptri, params.density,
                             looptri_density_factor(params.density_factors, looptri),
                             looptri_rng)
     IN /\ positions' = positions \o e.pos
        /\ stable_ids' = stable_ids \o e.id
        /\ normals' = normals \o e.normal
        /\ looptri_rng' = e.rng
        /\ scatter_log' = Append(scatter_log, e)
  /\ looptri_index' = looptri_index + 1
  /\ UNCHANGED <<params, pc, bary_coords, looptri_indices, elimination_mask,
                 kdtree, i, geometry_set_out, candidates, previous>>

(* line 572 and lines 756-758 *)
RandomScatterReturn ==
  /\ pc = "random_scatter"
  /\ looptri_index >= Len(Looptris)
  /\ pc' = "pointcloud"
  /\ UNCHANGED <<params, looptri_index, looptri_rng, positions, bary_coords,
                 looptri_indices, elimination_mask, kdtree, i, normals,
                 stable_ids, geometry_set_out, scatter_log, candidates, previous>>

(***************************************************************************)
(* initial_uniform_distribution, lines 575-610                             *)
(***************************************************************************)
(* line 596: the constant density is used, without a factor               *)
UniformDensityFactorPerVertex(density_factors, looptri) ==
  looptri_density_factor(density_factors, looptri)

UniformDensityFactor(density_factors, looptri) == One

InitialUniformLooptri ==
  /\ pc = "initial_uniform"
  /\ looptri_index < Len(Looptris)
  /\ LET looptri == Looptris[looptri_index + 1]
         e == ScatterLooptri(looptri_index, params.seed, looptri, params.density,
                             UniformDensityFactor(params.density_factors, looptri),
                             looptri_rng)
     IN /\ positions' = positions \o e.pos
        /\ bary_coords' = bary_coords \o e.bary
        /\ looptri_indices' = looptri_indices \o [k \in 1..Len(e.bary) |-> looptri_index]
        /\ looptri_rng' = e.rng
        /\ scatter_log' = Append(scatter_log, e)
  /\ looptri_index' = looptri_index + 1
  /\ UNCHANGED <<params, pc, elimination_mask, kdtree, i, normals, stable_ids,
                 geometry_set_out, candidates, previous>>

(* line 610 and line 707: Array<bool> elimination_mask(positions.size(), false) *)
InitialUniformReturn ==
  /\ pc = "initial_uniform"
  /\ looptri_index >= Len(Looptris)
  /\ elimination_mask' = [k \in 1..Len(positions) |-> FALSE]
  /\ candidates' = [positions |-> positions, bary_coords |-> bary_coords,
                    looptri_indices |-> looptri_indices]
  /\ pc' = "kdtree_new"
  /\ UNCHANGED <<params, looptri_index, looptri_rng, positions, bary_coords,
                 looptri_indices, kdtree, i, normals, stable_ids,
                 geometry_set_out, scatter_log, previous>>

(***************************************************************************)
(* build_kdtree, lines 612-620                                             *)
(***************************************************************************)
(* line 614, and line 625 calling it *)
BuildKdtreeNew ==
  /\ pc = "kdtree_new"
  /\ kdtree' = [kdtree EXCEPT !.state = "new", !.nodes = <<>>]
  /\ i' = 0
  /\ pc' = "kdtree_insert"
  /\ UNCHANGED <<params, looptri_index, looptri_rng, positions, bary_coords,
                 looptri_indices, elimination_mask, normals, stable_ids,
                 geometry_set_out, scatter_log, candidates, previous>>

(* line 615 with the bound one too low: the last position is left out     *)
InsertLoopStopsEarly(index, size) == index < size - 1

(* line 615: the condition of the loop over the positions                  *)
InsertLoopContinues(index, size) == index < size

(* lines 615-617 *)
BuildKdtreeInsert ==
  /\ pc = "kdtree_insert"
  /\ InsertLoopContinues(i, Len(positions))
  /\ kdtree' = [kdtree EXCEPT
                  !.nodes = Append(@, [index |-> i, co |-> positions[i + 1]])]
  /\ i' = i + 1
  /\ UNCHANGED <<params, pc, looptri_index, looptri_rng, positions, bary_coords,
                 looptri_indices, elimination_mask, normals, stable_ids,
                 geometry_set_out, scatter_log, candidates, previous>>

(* lines 618-619 *)
BuildKdtreeBalance ==
  /\ pc = "kdtree_insert"
  /\ ~InsertLoopContinues(i, Len(positions))
  /\ kdtree' = [kdtree EXCEPT !.state = "balanced"]
  /\ i' = 0
  /\ pc' = "mask"
  /\ UNCHANGED <<params, looptri_index, looptri_rng, positions, bary_coords,
                 looptri_indices, elimination_mask, normals, stable_ids,
                 geometry_set_out, scatter_log, candidates, previous>>

(***************************************************************************)
(* create_elimination_mask_for_close_points, lines 622-651                 *)
(***************************************************************************)
(* BLI_kdtree_3d_range_search_cb: the indices of the nodes within range of *)
(* co; the callback is called once for each of them                        *)
RangeSearch(tree, co, range) ==
  {tree.nodes[k].index : k \in {n \in 1..Len(tree.nodes) :
                                 len_squared(tree.nodes[n].co, co) <= range * range}}

(* lines 641-647 without the test of line 644: the querying candidate is   *)
(* marked as well                                                          *)
CallbackMarksAll(index, callback_index, mask_index) == mask_index = index

(* the callback marking only the nodes of a lower index                    *)
CallbackMarksLower(index, callback_index, mask_index) ==
  index < callback_index /\ mask_index = index

(* lines 641-647: the callback, for the found node `index` of the query of *)
(* the candidate callback_index: TRUE when it marks mask_index             *)
CallbackMarks(index, callback_index, mask_index) ==
  index # callback_index /\ mask_index = index

(* lines 628-630 left out: no candidate is skipped                         *)
SkipsCandidateNever(mask, index) == FALSE

(* lines 628-630: an eliminated candidate is skipped                       *)
SkipsCandidate(mask, index) == mask[index + 1]

(* lines 632-648 with a callback that returns false: the search stops    *)
(* after the first node it has found                                       *)
MaskAfterSearchFirstOnly(mask, found, index) ==
  [k \in 1..Len(mask) |->
     mask[k] \/ \E f \in found :
                  /\ \A g \in found : f <= g
                  /\ f # index /\ k - 1 = f]

(* lines 632-648: the mask after the query of candidate index              *)
MaskAfterSearch(mask, found, index) ==
  [k \in 1..Len(mask) |->
     mask[k] \/ \E f \in found : CallbackMarks(f, index, k - 1)]

MaskLoop ==
  /\ pc = "mask"
  /\ i < Len(positions)
  /\ IF SkipsCandidate(elimination_mask, i)
       THEN UNCHANGED <<elimination_mask, kdtree>>
       ELSE /\ elimination_mask' =
                 MaskAfterSearch(elimination_mask,
                                 RangeSearch(kdtree, positions[i + 1],
                                             params.minimum_distance), i)
            /\ kdtree' = [kdtree EXCEPT !.queries = @ + 1]
  /\ i' = i + 1
  /\ UNCHANGED <<params, pc, looptri_index, looptri_rng, positions, bary_coords,
                 looptri_indices, normals, stable_ids, geometry_set_out,
                 scatter_log, candidates, previous>>

(* line 650, then line 709 entering the removal loop at line 658 *)
MaskFree ==
  /\ pc = "mask"
  /\ i >= Len(positions)
  /\ kdtree' = [kdtree EXCEPT !.state = "freed", !.nodes = <<>>, !.frees = @ + 1]
  /\ i' = Len(positions) - 1
  /\ pc' = "eliminate"
  /\ UNCHANGED <<params, looptri_index, looptri_rng, positions, bary_coords,
                 looptri_indices, elimination_mask, normals, stable_ids,
                 geometry_set_out, scatter_log, candidates, previous>>

(***************************************************************************)
(* eliminate_points_based_on_mask, lines 653-665                           *)
(***************************************************************************)
(* Vector::remove_and_reorder: the last element takes the place of the    *)
(* removed one                                                             *)
remove_and_reorder(vec, index) ==
  LET last == Len(vec)
  IN IF index + 1 < last
       THEN [k \in 1..(last - 1) |-> IF k = index + 1 THEN vec[last] ELSE vec[k]]
       ELSE SubSeq(vec, 1, last - 1)

(* line 659, mistaken for a mask of the points to keep                     *)
IsEliminatedInverted(mask, index) == ~mask[index + 1]

(* line 659 *)
IsEliminated(mask, index) == mask[index + 1]

(* lines 660-662 with the third removal taking the last element instead    *)
RemoveEntryUnaligned(arrays, index) ==
  [positions |-> remove_and_reorder(arrays.positions, index),
   bary_coords |-> remove_and_reorder(arrays.bary_coords, index),
   looptri_indices |-> SubSeq(arrays.looptri_indices, 1,
                              Len(arrays.looptri_indices) - 1)]

(* lines 660-662 with Vector::remove, which shifts the elements behind    *)
(* the removed one                                                         *)
RemoveEntryStable(arrays, index) ==
  LET remove(vec) == SubSeq(vec, 1, index) \o SubSeq(vec, index + 2, Len(vec))
  IN [positions |-> remove(arrays.positions),
      bary_coords |-> remove(arrays.bary_coords),
      looptri_indices |-> remove(arrays.looptri_indices)]

(* lines 660-662: the same removal in the three arrays                     *)
RemoveEntry(arrays, index) ==
  [positions |-> remove_and_reorder(arrays.positions, index),
   bary_coords |-> remove_and_reorder(arrays.bary_coords, index),
   looptri_indices |-> remove_and_reorder(arrays.looptri_indices, index)]

Arrays == [positions |-> positions, bary_coords |-> bary_coords,
           looptri_indices |-> looptri_indices]

EliminateLoop ==
  /\ pc = "eliminate"
  /\ i >= 0
  /\ LET after == IF IsEliminated(elimination_mask, i)
                    THEN RemoveEntry(Arrays, i) ELSE Arrays
     IN /\ positions' = after.positions
        /\ bary_coords' = after.bary_coords
        /\ looptri_indices' = after.looptri_indices
  /\ i' = i - 1
  /\ UNCHANGED <<params, pc, looptri_index, looptri_rng, elimination_mask,
                 kdtree, normals, stable_ids, geometry_set_out, scatter_log,
                 candidates, previous>>

(***************************************************************************)
(* stable_random_scatter_with_minimum_distance, lines 711-715, and         *)
(* compute_remaining_point_data, lines 667-690                             *)
(***************************************************************************)
(* line 711, taken before the removal instead of after it                  *)
TotOutputPointsStale(current, mask) == Len(mask)

(* line 711: const int tot_output_points = positions.size()                *)
TotOutputPoints(current, mask) == Len(current)

(* line 686 without the index of the looptri                               *)
RemainingIdNoIndex(bary, indices, k) == float3_hash(bary[k])

(* lines 674-689: the id and the normal of the remaining point k           *)
RemainingId(bary, indices, k) == float3_hash(bary[k]) + indices[k]

RemainingNormal(looptris, indices, k) ==
  LET looptri == looptris[indices[k] + 1]
  IN normal_tri_v3(Verts[looptri[1]], Verts[looptri[2]], Verts[looptri[3]])

(* a resized vector holds value-initialised entries until they are written *)
ComputeRemaining ==
  /\ pc = "eliminate"
  /\ i < 0
  /\ LET tot_output_points == TotOutputPoints(positions, elimination_mask)
     IN /\ stable_ids' = [k \in 1..tot_output_points |->
                            IF k <= Len(bary_coords)
                              THEN RemainingId(bary_coords, looptri_indices, k)
                              ELSE 0]
        /\ normals' = [k \in 1..tot_output_points |->
                         IF k <= Len(bary_coords)
                           THEN RemainingNormal(Looptris, looptri_indices, k)
                           ELSE <<0, 0, 0>>]
  /\ pc' = "pointcloud"
  /\ UNCHANGED <<params, looptri_index, looptri_rng, positions, bary_coords,
                 looptri_indices, elimination_mask, kdtree, i, geometry_set_out,
                 scatter_log, candidates, previous>>

(***************************************************************************)
(* geo_node_point_distribute_exec, lines 766-803                           *)
(***************************************************************************)
WriteOutput ==
  /\ pc = "pointcloud"
  /\ geometry_set_out' =
       [output_set |-> TRUE,
        has_pointcloud |-> TRUE,
        co |-> positions,
        radius |-> [k \in 1..Len(positions) |-> PointRadius],
        id |-> stable_ids,
        normal |-> normals,
        rotation |-> [k \in 1..Len(positions) |->
                        IF k <= Len(normals)
                          THEN normal_to_euler_rotation(normals[k]) ELSE NULL]]
  /\ pc' = "done"
  /\ UNCHANGED <<params, looptri_index, looptri_rng, positions, bary_coords,
                 looptri_indices, elimination_mask, kdtree, i, normals,
                 stable_ids, scatter_log, candidates, previous>>

(***************************************************************************)
(* Specification of one execution of the node                              *)
(***************************************************************************)
Next ==
  \/ ExecHasMesh
  \/ ExecDensity
  \/ ExecMeshIn
  \/ RandomScatterLooptri
  \/ RandomScatterReturn
  \/ InitialUniformLooptri
  \/ InitialUniformReturn
  \/ BuildKdtreeNew
  \/ BuildKdtreeInsert
  \/ BuildKdtreeBalance
  \/ MaskLoop
  \/ MaskFree
  \/ EliminateLoop
  \/ ComputeRemaining
  \/ WriteOutput

Spec == Init /\ [][Next]_vars

(***************************************************************************)
(* Specification of the elimination and compaction for every candidate     *)
(* set: the execution is taken up where initial_uniform_distribution has   *)
(* left its loop (line 609), with the generator abstracted, so that each   *)
(* candidate is any barycentric coordinate of BaryChoices in a looptri of  *)
(* the mesh ElimLooptris, the candidates being grouped by looptri as the   *)
(* loop appends them.                                                      *)
(***************************************************************************)
BaryChoices == {<<RngMod, 0, 0>>, <<0, RngMod, 0>>, <<0, 0, RngMod>>,
                <<RngMod \div 2, RngMod \div 2, 0>>}

CandidatePosition(looptris, index, bary) ==
  LET looptri == looptris[index + 1]
  IN interp_v3_v3v3v3(Verts[looptri[1]], Verts[looptri[2]], Verts[looptri[3]], bary)

CandidateSets(looptris) ==
  {c \in SeqsUpTo((0..(Len(looptris) - 1)) \X BaryChoices, MaxPoints) :
     \A k \in 1..(Len(c) - 1) : c[k][1] <= c[k + 1][1]}

(* the mesh of this specification: two looptris that share an edge        *)
ElimLooptris == << <<1, 2, 3>>, <<2, 4, 3>> >>

InitElim ==
  /\ params \in {p \in ExecParams :
                   /\ p.geometry.mpoly # NULL
                   /\ p.geometry.looptris = ElimLooptris
                   /\ p.distribute_method = "POISSON"
                   /\ p.density = 1
                   /\ p.density_factors = AllOnes
                   /\ p.seed = 0}
  /\ pc = "initial_uniform"
  /\ looptri_index = Len(Looptris)
  /\ \E c \in CandidateSets(Looptris) :
       /\ positions = [k \in 1..Len(c) |-> CandidatePosition(Looptris, c[k][1], c[k][2])]
       /\ bary_coords = [k \in 1..Len(c) |-> c[k][2]]
       /\ looptri_indices = [k \in 1..Len(c) |-> c[k][1]]
  /\ looptri_rng = 0
  /\ elimination_mask = <<>>
  /\ kdtree = NoKdtree
  /\ i = 0
  /\ normals = <<>>
  /\ stable_ids = <<>>
  /\ geometry_set_out = OutputNotSet
  /\ scatter_log = <<>>
  /\ candidates = NoCandidates
  /\ previous = NoPrevious

NextElim ==
  \/ InitialUniformReturn
  \/ BuildKdtreeNew
  \/ BuildKdtreeInsert
  \/ BuildKdtreeBalance
  \/ MaskLoop
  \/ MaskFree
  \/ EliminateLoop
  \/ ComputeRemaining
  \/ WriteOutput

SpecElim == InitElim /\ [][NextElim]_vars

(***************************************************************************)
(* Specification of repeated executions.  The node is executed again with  *)
(* the same inputs but for one of them, edited in between: the value of    *)
(* the density attribute at one vertex, the looptris of the mesh, or the   *)
(* method and its distance.  The inputs and the results of the execution   *)
(* before are kept in the history variable previous.                       *)
(***************************************************************************)
(* the densities, the attribute values and the distances of the repeated  *)
(* executions                                                              *)
RunDensities == {3}

RunFactorValues == {-1, 1}

RunDistances == {0, 2, 24}

InitRuns ==
  /\ params \in {p \in ExecParams : /\ p.geometry.mpoly # NULL
                                     /\ p.density \in RunDensities
                                     /\ p.density_factors \in
                                          [VertIndices -> RunFactorValues]
                                     /\ p.minimum_distance \in RunDistances}
  /\ pc = "has_mesh"
  /\ Locals

Reexecute(new_params) ==
  /\ pc = "done"
  /\ previous' = [valid |-> TRUE, params |-> params, scatter_log |-> scatter_log,
                  output |-> geometry_set_out]
  /\ params' = new_params
  /\ pc' = "has_mesh"
  /\ looptri_index' = 0
  /\ looptri_rng' = 0
  /\ positions' = <<>>
  /\ bary_coords' = <<>>
  /\ looptri_indices' = <<>>
  /\ elimination_mask' = <<>>
  /\ kdtree' = NoKdtree
  /\ i' = 0
  /\ normals' = <<>>
  /\ stable_ids' = <<>>
  /\ geometry_set_out' = OutputNotSet
  /\ scatter_log' = <<>>
  /\ candidates' = NoCandidates

ReexecuteWithDensityFactor ==
  \E v \in VertIndices, x \in RunFactorValues :
    Reexecute([params EXCEPT !.density_factors[v] = x])

ReexecuteWithMesh ==
  \E m \in Meshes : Reexecute([params EXCEPT !.geometry.looptris = m])

ReexecuteWithMethod ==
  \E method \in Methods, distance \in RunDistances :
    /\ method = "RANDOM" => distance = 0
    /\ Reexecute([params EXCEPT !.distribute_method = method,
                                !.minimum_distance = distance])

NextRuns ==
  \/ Next
  \/ ReexecuteWithDensityFactor
  \/ ReexecuteWithMesh
  \/ ReexecuteWithMethod

SpecRuns == InitRuns /\ [][NextRuns]_vars

(***************************************************************************)
(* Properties of the elimination pass and of the compaction (SpecElim)     *)
(***************************************************************************)
(* two positions within the minimum distance of each other *)
Close(p, q) ==
  len_squared(p, q) <= params.minimum_distance * params.minimum_distance

(* the mask loop has visited every candidate *)
MaskPassDone == pc = "mask" /\ i >= Len(positions)

(* eliminate_points_based_on_mask has left its loop *)
EliminationDone == pc = "eliminate" /\ i < 0

(* the entries of the three arrays at k *)
Triple(arrays, k) ==
  <<arrays.positions[k], arrays.bary_coords[k], arrays.looptri_indices[k]>>

(* the original candidates behind the index from that are not masked *)
Unmasked(from) ==
  {o \in 1..Len(elimination_mask) : o > from /\ ~elimination_mask[o]}

CountIn(arrays, S, t) == Cardinality({k \in S : Triple(arrays, k) = t})

(* the candidates that are not masked, in their original order *)
RECURSIVE StableFilter(_, _)
StableFilter(vec, mask) ==
  IF vec = <<>> THEN <<>>
  ELSE (IF mask[1] THEN <<>> ELSE <<vec[1]>>) \o StableFilter(Tail(vec), Tail(mask))

(* C1: in minimum-distance mode, once the mask has been created and the    *)
(* masked points have been removed, any two distinct points left in the    *)
(* positions array are at a distance of at least minimum_distance.         *)
C1_SurvivorsKeepMinimumDistance ==
  EliminationDone =>
    \A k, l \in 1..Len(positions) :
      k # l => len_squared(positions[k], positions[l])
                 >= params.minimum_distance * params.minimum_distance

(* C1 witness: the removal is over, it has removed a point that was within *)
(* a positive minimum distance of another, and two points are left.        *)
C1_Witness ==
  /\ EliminationDone
  /\ params.minimum_distance > 0
  /\ Len(positions) >= 2
  /\ Len(positions) < Len(candidates.positions)

(* C2 as claimed: whenever two candidates i < j are within the minimum     *)
(* distance of each other, i is retained and j is eliminated.              *)
C2_LowerIndexAlwaysWins ==
  MaskPassDone =>
    \A a, b \in 1..Len(positions) :
      (a < b /\ Close(positions[a], positions[b]))
        => (~elimination_mask[a] /\ elimination_mask[b])

(* C2 amended: whenever two candidates i < j are within the minimum        *)
(* distance of each other and no retained candidate k < i is within the    *)
(* minimum distance of i, i is retained and j is eliminated.               *)
C2_LowerIndexWinsUnlessEliminatedEarlier ==
  MaskPassDone =>
    \A a, b \in 1..Len(positions) :
      (/\ a < b
       /\ Close(positions[a], positions[b])
       /\ \A k \in 1..(a - 1) :
            Close(positions[k], positions[a]) => elimination_mask[k])
        => (~elimination_mask[a] /\ elimination_mask[b])

(* C2 witness: a candidate that is not the first one, with an eliminated   *)
(* candidate close to it before it, has won against a later candidate.     *)
C2_Witness ==
  /\ MaskPassDone
  /\ \E k, a, b \in 1..Len(positions) :
       /\ k < a /\ a < b
       /\ Close(positions[k], positions[a]) /\ elimination_mask[k]
       /\ Close(positions[a], positions[b])
       /\ ~elimination_mask[a] /\ elimination_mask[b]

(* C3: from the first iteration of the removal loop on, and after it, the  *)
(* three arrays have the same length, and the three entries at every index *)
(* are those of one original candidate.                                    *)
C3_ParallelArraysAligned ==
  pc \in {"eliminate", "pointcloud", "done"} =>
    /\ Len(positions) = Len(bary_coords)
    /\ Len(positions) = Len(looptri_indices)
    /\ \A k \in 1..Len(positions) :
         \E o \in 1..Len(candidates.positions) :
           Triple(Arrays, k) = Triple(candidates, o)

(* C3 witness: the removal loop is between two iterations, and an          *)
(* iteration before has moved the last candidate of another looptri into   *)
(* the place of a removed one.                                             *)
C3_Witness ==
  /\ pc = "eliminate"
  /\ i >= 0
  /\ Len(positions) < Len(candidates.positions)
  /\ \E k \in 1..Len(positions) :
       /\ positions[k] # candidates.positions[k]
       /\ looptri_indices[k] # candidates.looptri_indices[k]

(* C4: at every iteration of the removal loop the entries up to the loop   *)
(* index are the original ones, in place, and the entries behind it are    *)
(* the original candidates behind it that are not masked, each once; so    *)
(* the element moved into a vacated place is never a masked one, and when  *)
(* the loop is left the arrays hold the unmasked candidates, each once.    *)
C4_RemovesExactlyTheMasked ==
  pc = "eliminate" =>
    /\ Len(positions) >= i + 1
    /\ \A k \in 1..(i + 1) : Triple(Arrays, k) = Triple(candidates, k)
    /\ Len(positions) - (i + 1) = Cardinality(Unmasked(i + 1))
    /\ \A k \in (i + 2)..Len(positions) :
         CountIn(Arrays, (i + 2)..Len(positions), Triple(Arrays, k))
           = CountIn(candidates, Unmasked(i + 1), Triple(Arrays, k))

(* C4 witness: the loop is left, two candidates were removed, and a        *)
(* remaining candidate stands where a masked one stood.                    *)
C4_Witness ==
  /\ EliminationDone
  /\ Len(positions) + 2 <= Len(candidates.positions)
  /\ \E k \in 1..Len(positions) :
       elimination_mask[k] /\ Triple(Arrays, k) # Triple(candidates, k)

(* C10 as claimed: the candidates left by the removal are in the order     *)
(* they had in the candidate list.                                         *)
C10_OrderPreserved ==
  EliminationDone =>
    Arrays = [positions |-> StableFilter(candidates.positions, elimination_mask),
              bary_coords |-> StableFilter(candidates.bary_coords, elimination_mask),
              looptri_indices |->
                StableFilter(candidates.looptri_indices, elimination_mask)]

(* C10 amended: a remaining candidate whose original index is below the    *)
(* number of remaining candidates keeps its index, and the place of a      *)
(* masked candidate below that number is taken by an unmasked candidate    *)
(* whose original index is not below it.                                   *)
C10_OrderPreservedBelowCount ==
  EliminationDone =>
    \A k \in 1..Len(positions) :
      IF ~elimination_mask[k]
        THEN Triple(Arrays, k) = Triple(candidates, k)
        ELSE \E o \in Unmasked(Len(positions)) :
               Triple(Arrays, k) = Triple(candidates, o)

(* C10 witness: the removal has changed the order of two remaining         *)
(* candidates.                                                             *)
C10_Witness ==
  /\ EliminationDone
  /\ positions # StableFilter(candidates.positions, elimination_mask)

(***************************************************************************)
(* Properties of one execution of the node (Spec)                          *)
(***************************************************************************)
RECURSIVE SumEmitted(_)
SumEmitted(log) ==
  IF log = <<>> THEN 0 ELSE Len(log[1].bary) + SumEmitted(Tail(log))

(* the candidates that survive: all of them, or the unmasked ones *)
SurvivingCandidates ==
  IF params.distribute_method = "RANDOM"
    THEN SumEmitted(scatter_log)
    ELSE Cardinality({o \in 1..Len(elimination_mask) : ~elimination_mask[o]})

OutputLengths(out) ==
  {Len(out.co), Len(out.radius), Len(out.id), Len(out.normal), Len(out.rotation)}

(* C5: in both modes the point cloud given to the output has as many       *)
(* points as candidates survive (all emitted candidates in the random      *)
(* mode, the unmasked ones in the minimum-distance mode), and its          *)
(* position, radius, id, normal and rotation arrays all have that length.  *)
C5_OutputLengthsEqualSurvivors ==
  (pc = "done" /\ geometry_set_out.has_pointcloud) =>
    /\ OutputLengths(geometry_set_out) = {SurvivingCandidates}
    /\ params.distribute_method = "POISSON"
         => Len(elimination_mask) = SumEmitted(scatter_log)

(* C5 witness: a finished execution in the minimum-distance mode that has  *)
(* eliminated a candidate and written at least one point.                  *)
C5_Witness ==
  /\ pc = "done"
  /\ geometry_set_out.has_pointcloud
  /\ params.distribute_method = "POISSON"
  /\ Len(geometry_set_out.co) >= 1
  /\ Len(geometry_set_out.co) < Len(elimination_mask)

NoMeshInput == ~params.geometry.has_mesh

NonPositiveDensity == params.density <= 0

MeshOrPolysAbsent == params.geometry.mesh_in = NULL \/ params.geometry.mpoly = NULL

ZeroLooptris == Len(Looptris) = 0

(* no scatter iteration, no index and no mask *)
NoStepRan ==
  /\ scatter_log = <<>>
  /\ looptri_index = 0
  /\ kdtree = NoKdtree
  /\ elimination_mask = <<>>
  /\ candidates = NoCandidates
  /\ positions = <<>>

(* C6: with no mesh in the input, a density of zero or less, an absent     *)
(* mesh or absent polygons, or a mesh without triangles, the execution     *)
(* ends with an output of zero points, whatever the mode and the seed; in  *)
(* the first three cases no scatter, index or elimination step has run.    *)
C6_DegenerateInputsGiveEmptyOutput ==
  pc = "done" =>
    /\ geometry_set_out.output_set
    /\ (NoMeshInput \/ NonPositiveDensity \/ MeshOrPolysAbsent \/ ZeroLooptris)
         => OutputLengths(geometry_set_out) = {0}
    /\ (NoMeshInput \/ NonPositiveDensity \/ MeshOrPolysAbsent) => NoStepRan

(* C6 witness: an execution with a density of zero on a mesh of two        *)
(* triangles has ended.                                                    *)
C6_Witness ==
  /\ pc = "done"
  /\ params.density = 0
  /\ params.geometry.mpoly # NULL
  /\ Len(Looptris) = 2
  /\ OutputLengths(geometry_set_out) = {0}

(* the first value of the stream of a looptri *)
FirstOfStream(index, seed) == RngStep(RandomNumberGenerator(BLI_hash_int(index + seed)))

(* C8: a looptri with an expected count of n + f (n its floor) emits       *)
(* n + 1 points when the first value u of its stream is below f, and n     *)
(* points otherwise; so it emits n points when the expected count is an    *)
(* integer.                                                                *)
C8_StochasticRounding ==
  \A k \in 1..Len(scatter_log) :
    LET e == scatter_log[k]
        n == e.amount.num \div e.amount.den
        f == e.amount.num - n * e.amount.den
        u == FirstOfStream(k - 1, params.seed)
    IN e.amount.num >= 0 =>
         /\ e.u = u
         /\ Len(e.bary) = IF u * e.amount.den < f * RngMod THEN n + 1 ELSE n
         /\ f = 0 => Len(e.bary) = n

(* C8 witness: one looptri has rounded a fractional count up and another   *)
(* has rounded one down.                                                   *)
C8_Witness ==
  /\ \E k \in 1..Len(scatter_log) :
       LET e == scatter_log[k] IN
         /\ e.amount.num % e.amount.den # 0
         /\ Len(e.bary) = (e.amount.num \div e.amount.den) + 1
  /\ \E k \in 1..Len(scatter_log) :
       LET e == scatter_log[k] IN
         /\ e.amount.num % e.amount.den # 0
         /\ e.amount.num > e.amount.den
         /\ Len(e.bary) = e.amount.num \div e.amount.den

(***************************************************************************)
(* Properties of two executions (SpecRuns)                                 *)
(***************************************************************************)
(* the same looptri index, the same vertices and the same expected count   *)
SameLooptriInputs(e, e0) ==
  /\ e.looptri_index = e0.looptri_index
  /\ e.looptri = e0.looptri
  /\ e.amount.num * e0.amount.den = e0.amount.num * e.amount.den

(* C7: what the uniform scatter emits for a looptri (the count, the        *)
(* barycentric coordinates and the positions) is the same in two           *)
(* executions with the same seed in which the looptri has the same index,  *)
(* the same vertices and the same density, whatever the other looptris     *)
(* are.                                                                    *)
C7_ScatterPerLooptriDeterministic ==
  (previous.valid /\ previous.params.seed = params.seed) =>
    \A k \in 1..Len(scatter_log), k0 \in 1..Len(previous.scatter_log) :
      SameLooptriInputs(scatter_log[k], previous.scatter_log[k0]) =>
        /\ Len(scatter_log[k].bary) = Len(previous.scatter_log[k0].bary)
        /\ scatter_log[k].bary = previous.scatter_log[k0].bary
        /\ scatter_log[k].pos = previous.scatter_log[k0].pos

(* C7 witness: the second looptri is the same in two executions and emits  *)
(* a point, while the first looptri emits different numbers of points.     *)
C7_Witness ==
  /\ previous.valid
  /\ Len(scatter_log) = 2 /\ Len(previous.scatter_log) = 2
  /\ SameLooptriInputs(scatter_log[2], previous.scatter_log[2])
  /\ Len(scatter_log[2].bary) >= 1
  /\ Len(scatter_log[1].bary) # Len(previous.scatter_log[1].bary)

(* C9: two executions in the minimum-distance mode that differ in the      *)
(* values of the density attribute only give the same points, ids and      *)
(* normals.                                                                *)
C9_PoissonIgnoresDensityFactors ==
  (/\ pc = "done"
   /\ previous.valid
   /\ params.distribute_method = "POISSON"
   /\ [params EXCEPT !.density_factors = previous.params.density_factors]
        = previous.params) =>
    /\ geometry_set_out.co = previous.output.co
    /\ geometry_set_out.id = previous.output.id
    /\ geometry_set_out.normal = previous.output.normal

(* C9 witness: two finished executions in the minimum-distance mode with   *)
(* different values of the density attribute and at least one point.       *)
C9_Witness ==
  /\ pc = "done"
  /\ previous.valid
  /\ params.distribute_method = "POISSON"
  /\ params.density_factors # previous.params.density_factors
  /\ [params EXCEPT !.density_factors = previous.params.density_factors]
       = previous.params
  /\ Len(geometry_set_out.co) >= 1

(***************************************************************************)
(* Properties of the density factors of the random mode (Spec)             *)
(***************************************************************************)
(* the value of the density attribute at the vertex n of the looptri k     *)
FactorAt(k, n) == params.density_factors[Looptris[k][n]]

(* the sum of the factors of the looptri k that are above zero             *)
PositiveFactorSum(k) ==
  (IF FactorAt(k, 1) > 0 THEN FactorAt(k, 1) ELSE 0)
    + (IF FactorAt(k, 2) > 0 THEN FactorAt(k, 2) ELSE 0)
    + (IF FactorAt(k, 3) > 0 THEN FactorAt(k, 3) ELSE 0)

LooptriArea2(k) ==
  area_tri_v3(Verts[Looptris[k][1]], Verts[Looptris[k][2]], Verts[Looptris[k][3]])

(* C11: in the random mode the expected count of a looptri is its area     *)
(* times Density Max times the mean of its three factors, each factor      *)
(* below zero counting as zero; so the count is never negative, a factor   *)
(* below zero at one vertex leaves the share of the two others as it is,   *)
(* and a looptri whose three factors are all zero or less emits no point.  *)
C11_FactorsClampedAndAveraged ==
  params.distribute_method = "RANDOM" =>
    \A k \in 1..Len(scatter_log) :
      LET e == scatter_log[k] IN
        /\ e.amount.num * (AreaDen * DensityDen * FactorDen)
             = LooptriArea2(k) * params.density * PositiveFactorSum(k) * e.amount.den
        /\ e.amount.num >= 0
        /\ e.point_amount >= 0
        /\ (\A n \in 1..3 : FactorAt(k, n) <= 0) => Len(e.bary) = 0

(* C11 witness: a looptri with a factor below zero at one vertex and a     *)
(* factor above zero at another has emitted a point, and another looptri   *)
(* of the mesh has three factors of zero or less and has emitted none.     *)
C11_Witness ==
  /\ params.distribute_method = "RANDOM"
  /\ \E k \in 1..Len(scatter_log) :
       /\ \E n \in 1..3 : FactorAt(k, n) < 0
       /\ PositiveFactorSum(k) >= 1
       /\ Len(scatter_log[k].bary) >= 1
  /\ \E k \in 1..Len(scatter_log) :
       /\ \E n \in 1..3 : FactorAt(k, n) < 0
       /\ \A n \in 1..3 : FactorAt(k, n) <= 0
       /\ Len(scatter_log[k].bary) = 0

(***************************************************************************)
(* The lifecycle of the kd-tree of the elimination pass (SpecElim)         *)
(***************************************************************************)
(* the tree holds one node for each position, node k-1 at positions[k]     *)
AllInserted(tree) ==
  /\ Len(tree.nodes) = Len(positions)
  /\ \A k \in 1..Len(positions) :
       tree.nodes[k] = [index |-> k - 1, co |-> positions[k]]

(* C12: the kd-tree is created, receives a node for each of the N          *)
(* positions (index i for position i), is balanced after that, and is      *)
(* queried only once balanced and complete; it is freed once, when every   *)
(* candidate has been visited, and after the free there is no insert, no   *)
(* query and no second free, whatever N is.                                *)
C12_KdtreeLifecycle ==
  [][/\ Len(kdtree'.nodes) > Len(kdtree.nodes) =>
          /\ kdtree.state = "new"
          /\ kdtree'.nodes = Append(kdtree.nodes,
                                    [index |-> Len(kdtree.nodes),
                                     co |-> positions[Len(kdtree.nodes) + 1]])
     /\ (kdtree.state # "balanced" /\ kdtree'.state = "balanced") =>
          kdtree.state = "new" /\ AllInserted(kdtree) /\ kdtree.queries = 0
     /\ kdtree'.queries > kdtree.queries =>
          /\ kdtree.state = "balanced" /\ kdtree'.state = "balanced"
          /\ AllInserted(kdtree)
          /\ kdtree.frees = 0
     /\ kdtree'.frees # kdtree.frees =>
          /\ kdtree.frees = 0 /\ kdtree'.frees = 1
          /\ kdtree.state = "balanced" /\ kdtree'.state = "freed"
          /\ pc = "mask" /\ i >= Len(positions)
     /\ kdtree.state = "freed" => kdtree' = kdtree
     /\ pc' \in {"eliminate", "pointcloud", "done"} =>
          kdtree'.state = "freed" /\ kdtree'.frees = 1
    ]_vars

(* C12 witness: the tree has been freed once after a pass of three or more *)
(* candidates in which a candidate ran a query and another was skipped.    *)
C12_Witness ==
  /\ kdtree.state = "freed"
  /\ kdtree.frees = 1
  /\ Len(elimination_mask) >= 3
  /\ kdtree.queries >= 1
  /\ kdtree.queries < Len(elimination_mask)

(* the tree has been freed once after a pass over no candidate at all      *)
C12_WitnessEmpty ==
  /\ kdtree.state = "freed"
  /\ kdtree.frees = 1
  /\ Len(candidates.positions) = 0
  /\ kdtree.queries = 0

(***************************************************************************)
(* The mask during the elimination pass (SpecElim)                         *)
(***************************************************************************)
(* the pass has visited the candidate of index k - 1, or visits it now     *)
VisitedOrCurrent(k) == pc # "mask" \/ k - 1 <= i

(* C13: in every step that keeps the mask's length, no entry goes from     *)
(* true to false, and the entry of a candidate that the pass has visited   *)
(* or is visiting keeps its value: a candidate kept at its visit is never  *)
(* marked by the query of a later candidate, although the callback marks   *)
(* every found node but the querying one.                                  *)
C13_VisitedEntriesAreFinal ==
  [][(pc \in {"mask", "eliminate", "pointcloud"}
        /\ Len(elimination_mask') = Len(elimination_mask)) =>
       \A k \in 1..Len(elimination_mask) :
         /\ elimination_mask[k] => elimination_mask'[k]
         /\ VisitedOrCurrent(k) => elimination_mask'[k] = elimination_mask[k]
    ]_vars

(* C13 witness: the pass is over; candidate 1 was kept, the query of       *)
(* candidate 3, higher than 1 and also kept, found candidate 1's           *)
(* neighbour 2 (within the distance of both) and marked it, and candidate  *)
(* 1 is still unmarked.                                                    *)
C13_Witness ==
  /\ MaskPassDone
  /\ Len(positions) >= 3
  /\ ~elimination_mask[1]
  /\ elimination_mask[2]
  /\ ~elimination_mask[3]
  /\ Close(positions[1], positions[2])
  /\ Close(positions[2], positions[3])

(* the candidates unmarked in the mask, as indices from 1                  *)
KeptCandidates == {k \in 1..Len(elimination_mask) : ~elimination_mask[k]}

(* C14: when the pass has visited every candidate, each marked candidate j *)
(* has a lower unmarked candidate within minimum_distance of it, and the   *)
(* queries that ran are as many as the unmarked candidates: a marked       *)
(* candidate is skipped and runs no query.                                 *)
C14_EliminatedByEarlierSurvivor ==
  MaskPassDone =>
    /\ \A j \in 1..Len(elimination_mask) :
         elimination_mask[j] =>
           \E k \in 1..(j - 1) :
             ~elimination_mask[k] /\ Close(positions[k], positions[j])
    /\ kdtree.queries = Cardinality(KeptCandidates)

(* C14 witness: the pass is over; candidate 2 is marked, candidates 1 and  *)
(* 3 are both within the distance of it and unmarked, and candidate 4 is   *)
(* marked with candidate 3 its only lower neighbour that is unmarked.      *)
C14_Witness ==
  /\ MaskPassDone
  /\ Len(positions) = 4
  /\ ~elimination_mask[1] /\ elimination_mask[2]
  /\ ~elimination_mask[3] /\ elimination_mask[4]
  /\ Close(positions[1], positions[2])
  /\ Close(positions[3], positions[2])
  /\ Close(positions[3], positions[4])
  /\ ~Close(positions[1], positions[4])
  /\ kdtree.queries = 2

(***************************************************************************)
(* The random mode against the Poisson disk mode (SpecRuns)                *)
(***************************************************************************)
(* the finished execution and the one before it differ in the method, and  *)
(* in the minimum distance that only the Poisson disk mode reads, and in   *)
(* nothing else; every density factor is 1                                 *)
SameInputsOtherMethod ==
  /\ pc = "done"
  /\ previous.valid
  /\ params.distribute_method # previous.params.distribute_method
  /\ [params EXCEPT !.distribute_method = previous.params.distribute_method,
                    !.minimum_distance = previous.params.minimum_distance]
       = previous.params
  /\ params.density_factors = AllOnes

(* neither execution has eliminated a candidate                            *)
NoCandidateEliminated ==
  /\ Len(geometry_set_out.co) = SumEmitted(scatter_log)
  /\ Len(previous.output.co) = SumEmitted(previous.scatter_log)

(* C15: an execution in the random mode and one in the Poisson disk mode   *)
(* with the same mesh, seed and Density Max, every density factor 1 and no *)
(* candidate eliminated, output the same positions in the same order with  *)
(* the same normals and the same ids.                                      *)
C15_RandomAndPoissonAgree ==
  (SameInputsOtherMethod /\ NoCandidateEliminated) =>
    /\ geometry_set_out.co = previous.output.co
    /\ geometry_set_out.normal = previous.output.normal
    /\ geometry_set_out.id = previous.output.id
    /\ geometry_set_out.has_pointcloud = previous.output.has_pointcloud

(* C15 witness: a Poisson disk execution with a minimum distance above     *)
(* zero follows a random one with the same other inputs; no candidate was  *)
(* eliminated and the output holds points of the looptris 0 and 1.         *)
C15_Witness ==
  /\ SameInputsOtherMethod
  /\ NoCandidateEliminated
  /\ params.distribute_method = "POISSON"
  /\ params.minimum_distance > 0
  /\ Len(geometry_set_out.co) >= 2
  /\ \E k \in 1..Len(looptri_indices) : looptri_indices[k] = 0
  /\ \E k \in 1..Len(looptri_indices) : looptri_indices[k] = 1

(* the same with the random execution following the Poisson disk one       *)
C15_WitnessRandomAfterPoisson ==
  /\ SameInputsOtherMethod
  /\ NoCandidateEliminated
  /\ params.distribute_method = "RANDOM"
  /\ Len(geometry_set_out.co) >= 2

=============================================================================
